---- MODULE Spec2Model ----
(***************************************************************************)
(* The market-manager program (programs/market-manager): one prediction    *)
(* market with its liquidity pool, its escrow token account and its Bet    *)
(* accounts, driven by the instructions create_market, place_bet,          *)
(* settle_market and claim_winnings.                                       *)
(*                                                                         *)
(* An instruction is one atomic step.  A rejected instruction changes no   *)
(* account (the ledger discards the writes of a failed transaction); the   *)
(* model records only its error kind in `last`.                            *)
(***************************************************************************)
EXTENDS Integers, Sequences, FiniteSets, TLC

----------------------------------------------------------------------------
(* Unsigned integers.  u64 and u128 values exceed the range of the         *)
(* checker's integers, so an amount is kept as a little-endian sequence of *)
(* base-10000 limbs without high zero limbs (<<>> is zero); the operators  *)
(* below are exact.                                                        *)

Limb == 100 * 100

RECURSIVE Norm(_)
Norm(s) == IF s = <<>> THEN <<>>
           ELSE IF s[Len(s)] = 0 THEN Norm(SubSeq(s, 1, Len(s) - 1)) ELSE s

RECURSIVE AddC(_, _, _)
AddC(a, b, c) ==
    IF a = <<>> /\ b = <<>> THEN (IF c = 0 THEN <<>> ELSE <<c>>)
    ELSE LET x == IF a = <<>> THEN 0 ELSE Head(a)
             y == IF b = <<>> THEN 0 ELSE Head(b)
             s == x + y + c
         IN <<s % Limb>> \o AddC(IF a = <<>> THEN a ELSE Tail(a),
                                 IF b = <<>> THEN b ELSE Tail(b), s \div Limb)

Add(a, b) == AddC(a, b, 0)

RECURSIVE LeqAt(_, _, _)
\* a <= b for two numbers of i limbs each, compared from limb i down
LeqAt(a, b, i) == IF i = 0 THEN TRUE
                  ELSE IF a[i] # b[i] THEN a[i] < b[i]
                  ELSE LeqAt(a, b, i - 1)

Leq(a, b) == IF Len(a) # Len(b) THEN Len(a) < Len(b) ELSE LeqAt(a, b, Len(a))

Lt(a, b) == ~Leq(b, a)

RECURSIVE SubB(_, _, _)
SubB(a, b, c) ==
    IF a = <<>> THEN <<>>
    ELSE LET y == IF b = <<>> THEN 0 ELSE Head(b)
             d == Head(a) - y - c
         IN <<(d + Limb) % Limb>> \o SubB(Tail(a), IF b = <<>> THEN b ELSE Tail(b),
                                           IF d < 0 THEN 1 ELSE 0)

\* a - b, for a >= b
Sub(a, b) == Norm(SubB(a, b, 0))

RECURSIVE MulS(_, _, _)
MulS(a, m, c) ==
    IF a = <<>> THEN (IF c = 0 THEN <<>> ELSE <<c>>)
    ELSE LET p == Head(a) * m + c
         IN <<p % Limb>> \o MulS(Tail(a), m, p \div Limb)

\* a * m for a machine integer 0 <= m < Limb
MulSmall(a, m) == IF m = 0 THEN <<>> ELSE MulS(a, m, 0)

RECURSIVE Mul(_, _)
Mul(a, b) == IF a = <<>> \/ b = <<>> THEN <<>>
             ELSE Add(MulSmall(a, Head(b)), <<0>> \o Mul(a, Tail(b)))

RECURSIVE Digit(_, _, _)
\* the largest q <= guess with q * b <= r
Digit(r, b, guess) ==
    IF Leq(MulSmall(b, guess), r) THEN guess ELSE Digit(r, b, guess - 1)

RECURSIVE DivRem(_, _)
\* <<quotient, remainder>> of a by b, for b # 0: long division, a limb of the
\* quotient being guessed from the leading limbs and then corrected downwards
DivRem(a, b) ==
    IF Len(a) < Len(b) THEN << <<>>, a >>
    ELSE LET hi == DivRem(Tail(a), b)
             r  == Norm(<<Head(a)>> \o hi[2])
             n  == Len(b)
             lead == (IF Len(r) > n THEN r[n + 1] * Limb ELSE 0) + r[n]
             guess == IF lead \div b[n] < Limb THEN lead \div b[n] ELSE Limb - 1
             q  == IF Lt(r, b) THEN 0 ELSE Digit(r, b, guess)
         IN << Norm(<<q>> \o hi[1]), Sub(r, MulSmall(b, q)) >>

\* a \div b (truncating), for b # 0.  Both are scaled first so that the
\* leading limb of the divisor is at least half the base, which keeps every
\* guess within 2 of the limb.
Div(a, b) ==
    LET f == Limb \div (b[Len(b)] + 1)
    IN DivRem(MulSmall(a, f), MulSmall(b, f))[1]

Mod(a, b) == Sub(a, Mul(b, Div(a, b)))

RECURSIVE FromGroups(_, _)
FromGroups(g, acc) ==
    IF g = <<>> THEN acc
    ELSE FromGroups(Tail(g), Add(MulSmall(acc, 1000), Norm(<<Head(g)>>)))

\* the number the source writes with _ between its groups of three digits:
\* U(<<10, 0, 0>>) is 10_000_000
U(g) == FromGroups(g, <<>>)

Zero == <<>>

One == <<1>>

U64_MAX == U(<<18, 446, 744, 73, 709, 551, 615>>)

U128_MAX == U(<<340, 282, 366, 920, 938, 463, 463, 374, 607, 431, 768, 211, 455>>)

\* Rust's `x as u64` of a u128: the low 64 bits
AsU64(x) == IF Leq(x, U64_MAX) THEN x ELSE Mod(x, Add(U64_MAX, One))

\* Option<T>
None == <<>>

Some(v) == <<v>>

----------------------------------------------------------------------------
(* constants.rs *)

PLATFORM_FEE_BPS == 250

MAX_OUTCOMES == 10

MIN_BET_AMOUNT == U(<<10, 0, 0>>)

MAX_BET_AMOUNT == U(<<100, 0, 0, 0>>)

MIN_INITIAL_LIQUIDITY == U(<<1, 0, 0, 0>>)

----------------------------------------------------------------------------
(* Bounds of the model and the inputs the instructions are tried with. *)

\* the largest number of outcome names passed to create_market
MaxN == 5

\* the clock runs from 0 to MaxTime
MaxTime == 2

\* the largest number of Bet accounts
MaxBets == 2

\* the signers of claim_winnings
Users == {"alice", "bob"}

\* the signers of place_bet, who own the Bet accounts
Bettors == {"alice"}

Creators == {"creator"}

Oracles == {"oracle"}

\* whoever may sign a settle_market: the oracle of the market and a stranger
Signers == Oracles \cup {"alice"}

OutcomeCounts == 1 .. MaxN

\* u8 outcome indexes: every valid one and the first invalid one
OutcomeIndexes == 0 .. MaxN

\* the deadline passed to create_market
SettlementTimes == {1}

Liquidities == {Sub(MIN_INITIAL_LIQUIDITY, One), MIN_INITIAL_LIQUIDITY}

Amounts == {Sub(MIN_BET_AMOUNT, One), MIN_BET_AMOUNT,
            MAX_BET_AMOUNT, Add(MAX_BET_AMOUNT, One)}

MinShares == {Zero, MIN_BET_AMOUNT}

\* byte lengths of a case id or of the longest outcome name
NameLens == {64, 65}

----------------------------------------------------------------------------
(* State *)

VARIABLES
    now,      \* Clock::get()?.unix_timestamp
    market,   \* the Market account
    pool,     \* the LiquidityPool account
    bets,     \* the Bet accounts of the market, in the order of their creation
    escrow,   \* the token balance of the escrow account
    last      \* the latest instruction: its name, its result and, when it
              \* was accepted, its arguments

vars == <<now, market, pool, bets, escrow, last>>

\* the accounts before create_market has initialised them
NoMarket ==
    [creator |-> "", oracle |-> "", outcomes |-> <<>>, total_liquidity |-> Zero,
     total_bets |-> 0, status |-> "Uninitialized", settlement_time |-> 0,
     winning_outcome |-> None, fee_bps |-> 0, created_at |-> 0,
     settled_at |-> None]

NoPool == [reserves |-> <<>>, total_lp_tokens |-> Zero, k_constant |-> Zero]

Call(op, err, user, idx, amount, min_shares, bet) ==
    [op |-> op, err |-> err, user |-> user, outcome_index |-> idx,
     amount |-> amount, min_shares |-> min_shares, bet |-> bet]

Rejected(op, err) == Call(op, err, "", 0, Zero, Zero, 0)

Init ==
    /\ now = 0
    /\ market = NoMarket
    /\ pool = NoPool
    /\ bets = <<>>
    /\ escrow = Zero
    /\ last = Rejected("none", "Ok")

----------------------------------------------------------------------------
(* state/market.rs *)

is_active(m) == m.status = "Active"

is_settled(m) == m.status = "Settled"

can_settle(m, current_time) == is_active(m) /\ current_time >= m.settlement_time

----------------------------------------------------------------------------
(* utils/amm.rs and state/pool.rs.  An index is the source's u8 index; the *)
(* sequences of the model start at 1.                                      *)

Ok(v) == [err |-> "Ok", val |-> v]

Err(e) == [err |-> e, val |-> Zero]

\* a quotient k / new_reserve that is rounded up
calculate_shares_out_rounds_up(amount_in, reserve, k_constant) ==
    LET new_reserve == Add(reserve, amount_in)
    IN IF ~Leq(new_reserve, U128_MAX) THEN Err("ArithmeticOverflow")
       ELSE IF new_reserve = Zero THEN Err("ArithmeticOverflow")
       ELSE LET output_reserve ==
                    Div(Add(k_constant, Sub(new_reserve, One)), new_reserve)
            IN IF Lt(reserve, output_reserve) THEN Err("ArithmeticUnderflow")
               ELSE Ok(AsU64(Sub(reserve, output_reserve)))

calculate_shares_out(amount_in, reserve, k_constant) ==
    LET new_reserve == Add(reserve, amount_in)
    IN IF ~Leq(new_reserve, U128_MAX) THEN Err("ArithmeticOverflow")
       ELSE IF new_reserve = Zero THEN Err("ArithmeticOverflow")
       ELSE LET output_reserve == Div(k_constant, new_reserve)
            IN IF Lt(reserve, output_reserve) THEN Err("ArithmeticUnderflow")
               ELSE Ok(AsU64(Sub(reserve, output_reserve)))

RECURSIVE Sum(_)
Sum(s) == IF s = <<>> THEN Zero ELSE Add(Head(s), Sum(Tail(s)))

RECURSIVE Product(_)
Product(s) == IF s = <<>> THEN One ELSE Mul(Product(Tail(s)), Head(s))

\* a price that is rounded up
get_price_rounds_up(reserves, outcome_index) ==
    LET total_reserves == Sum(reserves)
        scaled == Mul(reserves[outcome_index + 1], U(<<1, 0, 0>>))
    IN IF ~Leq(scaled, U128_MAX) THEN Err("ArithmeticOverflow")
       ELSE IF total_reserves = Zero THEN Err("ArithmeticOverflow")
       ELSE Ok(AsU64(Div(Add(scaled, Sub(total_reserves, One)), total_reserves)))

get_price(reserves, outcome_index) ==
    LET total_reserves == Sum(reserves)
        scaled == Mul(reserves[outcome_index + 1], U(<<1, 0, 0>>))
    IN IF ~Leq(scaled, U128_MAX) THEN Err("ArithmeticOverflow")
       ELSE IF total_reserves = Zero THEN Err("ArithmeticOverflow")
       ELSE Ok(AsU64(Div(scaled, total_reserves)))

\* an update that adds the shares where it should add the amount
update_reserves_adds_shares(reserves, outcome_index, amount_in, shares_out) ==
    LET sum == Add(reserves[outcome_index + 1], shares_out)
    IN IF ~Leq(sum, U64_MAX) THEN Err("ArithmeticOverflow")
       ELSE Ok([reserves EXCEPT ![outcome_index + 1] = sum])

\* shares_out is accepted and not used
update_reserves(reserves, outcome_index, amount_in, shares_out) ==
    LET sum == Add(reserves[outcome_index + 1], amount_in)
    IN IF ~Leq(sum, U64_MAX) THEN Err("ArithmeticOverflow")
       ELSE Ok([reserves EXCEPT ![outcome_index + 1] = sum])

\* an addition that returns its left operand
checked_add_keeps_left(a, b) == Ok(a)

\* u64::checked_add
checked_add(a, b) ==
    IF Leq(Add(a, b), U64_MAX) THEN Ok(Add(a, b)) ELSE Err("ArithmeticOverflow")

----------------------------------------------------------------------------
(* The token program's transfer: it moves the amount or fails, here for    *)
(* want of funds in the source account.                                    *)

Deposit(balance, amount) == Add(balance, amount)

CanWithdraw(balance, amount) == Leq(amount, balance)

Withdraw(balance, amount) == Sub(balance, amount)

----------------------------------------------------------------------------
(* instructions/create_market.rs *)

Result(e, m, p, bs, esc) ==
    [err |-> e, market |-> m, pool |-> p, bets |-> bs, escrow |-> esc]

\* the constant of a binary market, x * y = k, whatever the number of outcomes
k_product_binary(reserves, checked) ==
    LET exact == Product(SubSeq(reserves, 1, 2))
    IN IF Leq(exact, U128_MAX) THEN Ok(exact)
       ELSE IF checked THEN Err("Panic")
       ELSE Ok(Mod(exact, Add(U128_MAX, One)))

\* the product of the reserves as u128: beyond u128 the build decides, an
\* overflow-checking build panics and any other wraps
k_product(reserves, checked) ==
    LET exact == Product(reserves)
    IN IF Leq(exact, U128_MAX) THEN Ok(exact)
       ELSE IF checked THEN Err("Panic")
       ELSE Ok(Mod(exact, Add(U128_MAX, One)))

\* t: the time of the clock; case_len, name_len: the byte lengths of the case
\* id and of the longest outcome name; n: the number of outcome names; st:
\* settlement_time; checked: the build checks arithmetic overflow
create_market(t, creator, oracle, case_len, n, name_len, st, initial_liquidity, checked) ==
    LET fail(e) == Result(e, NoMarket, NoPool, <<>>, Zero)
    IN IF ~(case_len <= 64) THEN fail("CaseIdTooLong")
       ELSE IF ~(n >= 2 /\ n <= MAX_OUTCOMES) THEN fail("TooManyOutcomes")
       ELSE IF ~Leq(MIN_INITIAL_LIQUIDITY, initial_liquidity)
            THEN fail("InsufficientLiquidity")
       ELSE IF ~(st > t) THEN fail("SettlementTimeNotReached")
       ELSE IF ~(name_len <= 64) THEN fail("OutcomeNameTooLong")
       ELSE
         LET liquidity_per_outcome == Div(initial_liquidity, U(<<n>>))
             outcome == [total_shares |-> liquidity_per_outcome,
                         price |-> Div(U(<<1, 0, 0>>), U(<<n>>)),
                         bet_count |-> 0]
             reserves == [i \in 1 .. n |-> liquidity_per_outcome]
             k == k_product(reserves, checked)
         IN IF k.err # "Ok" THEN fail(k.err)
            ELSE Result("Ok",
                   [creator |-> creator, oracle |-> oracle,
                    outcomes |-> [i \in 1 .. n |-> outcome],
                    total_liquidity |-> initial_liquidity,
                    total_bets |-> 0, status |-> "Active",
                    settlement_time |-> st,
                    winning_outcome |-> None, fee_bps |-> PLATFORM_FEE_BPS,
                    created_at |-> t, settled_at |-> None],
                   [reserves |-> reserves,
                    total_lp_tokens |-> initial_liquidity,
                    k_constant |-> k.val],
                   <<>>, Zero)

----------------------------------------------------------------------------
(* instructions/place_bet.rs *)

\* a PlaceBet without the constraint on the market account
place_bet_accounts_unconstrained(m) == TRUE

\* PlaceBet: the constraint on the market account
place_bet_accounts(m) == is_active(m)

valid_outcome_index(m, outcome_index) == outcome_index < Len(m.outcomes)

\* a lower bound that lets MIN_BET_AMOUNT - 1 through
amount_at_least_min_off_by_one(amount) == Leq(MIN_BET_AMOUNT, Add(amount, One))

amount_at_least_min(amount) == Leq(MIN_BET_AMOUNT, amount)

amount_at_most_max(amount) == Leq(amount, MAX_BET_AMOUNT)

\* a bet window that includes the deadline
bet_window_open_inclusive(m, current_time) == current_time <= m.settlement_time

bet_window_open(m, current_time) == current_time < m.settlement_time

\* the comparison of the slippage check the other way round
slippage_ok_reversed(shares, min_shares) == Leq(shares, min_shares)

slippage_ok(shares, min_shares) == Leq(min_shares, shares)

\* a handler that takes the entry price after it has updated the reserves
place_bet_apply_price_after(m, p, bs, esc, t, user, outcome_index, amount, shares) ==
    LET idx == outcome_index + 1
        fail(e) == Result(e, m, p, bs, esc)
        current_price == get_price(p.reserves, outcome_index)
    IN IF current_price.err # "Ok" THEN fail(current_price.err)
       ELSE
         LET updated == update_reserves(p.reserves, outcome_index, amount, shares)
         IN IF updated.err # "Ok" THEN fail(updated.err)
            ELSE
              LET total_liquidity == checked_add(m.total_liquidity, amount)
                  total_shares == checked_add(m.outcomes[idx].total_shares, shares)
                  price == get_price(updated.val, outcome_index)
              IN IF total_liquidity.err # "Ok" THEN fail(total_liquidity.err)
                 ELSE IF total_shares.err # "Ok" THEN fail(total_shares.err)
                 ELSE IF price.err # "Ok" THEN fail(price.err)
                 ELSE Result("Ok",
                        [m EXCEPT !.total_liquidity = total_liquidity.val,
                                  !.total_bets = @ + 1,
                                  !.outcomes[idx].total_shares = total_shares.val,
                                  !.outcomes[idx].bet_count = @ + 1,
                                  !.outcomes[idx].price = price.val],
                        [p EXCEPT !.reserves = updated.val],
                        Append(bs, [user |-> user,
                                    outcome_index |-> outcome_index,
                                    amount |-> amount,
                                    shares |-> shares,
                                    entry_price |-> price.val,
                                    timestamp |-> t,
                                    claimed |-> FALSE]),
                        Deposit(esc, amount))

\* the updates of the handler from the transfer on, in the order of the source
place_bet_apply(m, p, bs, esc, t, user, outcome_index, amount, shares) ==
    LET idx == outcome_index + 1
        fail(e) == Result(e, m, p, bs, esc)
        current_price == get_price(p.reserves, outcome_index)
    IN IF current_price.err # "Ok" THEN fail(current_price.err)
       ELSE
         LET updated == update_reserves(p.reserves, outcome_index, amount, shares)
         IN IF updated.err # "Ok" THEN fail(updated.err)
            ELSE
              LET total_liquidity == checked_add(m.total_liquidity, amount)
                  total_shares == checked_add(m.outcomes[idx].total_shares, shares)
                  price == get_price(updated.val, outcome_index)
              IN IF total_liquidity.err # "Ok" THEN fail(total_liquidity.err)
                 ELSE IF total_shares.err # "Ok" THEN fail(total_shares.err)
                 ELSE IF price.err # "Ok" THEN fail(price.err)
                 ELSE Result("Ok",
                        [m EXCEPT !.total_liquidity = total_liquidity.val,
                                  !.total_bets = @ + 1,
                                  !.outcomes[idx].total_shares = total_shares.val,
                                  !.outcomes[idx].bet_count = @ + 1,
                                  !.outcomes[idx].price = price.val],
                        [p EXCEPT !.reserves = updated.val],
                        Append(bs, [user |-> user,
                                    outcome_index |-> outcome_index,
                                    amount |-> amount,
                                    shares |-> shares,
                                    entry_price |-> current_price.val,
                                    timestamp |-> t,
                                    claimed |-> FALSE]),
                        Deposit(esc, amount))

\* a place_bet that stores the new price of every outcome
place_bet_reprices_all(m, p, bs, esc, t, user, outcome_index, amount, min_shares, funded) ==
    LET fail(e) == Result(e, m, p, bs, esc)
    IN IF ~place_bet_accounts(m) THEN fail("MarketNotActive")
       ELSE IF ~valid_outcome_index(m, outcome_index) THEN fail("InvalidOutcomeIndex")
       ELSE IF ~amount_at_least_min(amount) THEN fail("BetAmountTooSmall")
       ELSE IF ~amount_at_most_max(amount) THEN fail("BetAmountTooLarge")
       ELSE IF ~bet_window_open(m, t) THEN fail("SettlementTimeNotReached")
       ELSE
         LET shares == calculate_shares_out(amount, p.reserves[outcome_index + 1],
                                            p.k_constant)
         IN IF shares.err # "Ok" THEN fail(shares.err)
            ELSE IF ~slippage_ok(shares.val, min_shares) THEN fail("SlippageExceeded")
            ELSE IF ~funded THEN fail("InsufficientFunds")
            ELSE
              LET r == place_bet_apply(m, p, bs, esc, t, user, outcome_index,
                                       amount, shares.val)
              IN IF r.err # "Ok" THEN r
                 ELSE [r EXCEPT !.market.outcomes =
                           [i \in 1 .. Len(@) |->
                                [@[i] EXCEPT !.price =
                                     get_price(r.pool.reserves, i - 1).val]]]

\* funded: the user's token account holds the amount, so that the transfer
\* to the escrow succeeds
place_bet(m, p, bs, esc, t, user, outcome_index, amount, min_shares, funded) ==
    LET fail(e) == Result(e, m, p, bs, esc)
    IN IF ~place_bet_accounts(m) THEN fail("MarketNotActive")
       ELSE IF ~valid_outcome_index(m, outcome_index) THEN fail("InvalidOutcomeIndex")
       ELSE IF ~amount_at_least_min(amount) THEN fail("BetAmountTooSmall")
       ELSE IF ~amount_at_most_max(amount) THEN fail("BetAmountTooLarge")
       ELSE IF ~bet_window_open(m, t) THEN fail("SettlementTimeNotReached")
       ELSE
         LET shares == calculate_shares_out(amount, p.reserves[outcome_index + 1],
                                            p.k_constant)
         IN IF shares.err # "Ok" THEN fail(shares.err)
            ELSE IF ~slippage_ok(shares.val, min_shares) THEN fail("SlippageExceeded")
            ELSE IF ~funded THEN fail("InsufficientFunds")
            ELSE place_bet_apply(m, p, bs, esc, t, user, outcome_index, amount,
                                 shares.val)

----------------------------------------------------------------------------
(* instructions/settle_market.rs *)

\* a SettleMarket without the constraint on the oracle account
settle_market_accounts_any_signer(m, t, signer) ==
    IF ~can_settle(m, t) THEN "SettlementTimeNotReached" ELSE "Ok"

\* SettleMarket: the constraints on the accounts, in the order of the fields
settle_market_accounts(m, t, signer) ==
    IF ~can_settle(m, t) THEN "SettlementTimeNotReached"
    ELSE IF signer # m.oracle THEN "OracleNotAuthorized"
    ELSE "Ok"

\* a handler that does not record settled_at
settle_market_no_timestamp(m, t, signer, winning_outcome_index) ==
    LET accounts == settle_market_accounts(m, t, signer)
    IN IF accounts # "Ok" THEN [err |-> accounts, market |-> m]
       ELSE IF ~(t >= m.settlement_time)
            THEN [err |-> "SettlementTimeNotReached", market |-> m]
       ELSE IF is_settled(m) THEN [err |-> "MarketAlreadySettled", market |-> m]
       ELSE IF ~(winning_outcome_index < Len(m.outcomes))
            THEN [err |-> "InvalidOutcomeIndex", market |-> m]
       ELSE [err |-> "Ok",
             market |-> [m EXCEPT !.winning_outcome = Some(winning_outcome_index),
                                  !.status = "Settled"]]

\* a handler that closes the market where it should settle it
settle_market_closes(m, t, signer, winning_outcome_index) ==
    LET accounts == settle_market_accounts(m, t, signer)
    IN IF accounts # "Ok" THEN [err |-> accounts, market |-> m]
       ELSE IF ~(t >= m.settlement_time)
            THEN [err |-> "SettlementTimeNotReached", market |-> m]
       ELSE IF is_settled(m) THEN [err |-> "MarketAlreadySettled", market |-> m]
       ELSE IF ~(winning_outcome_index < Len(m.outcomes))
            THEN [err |-> "InvalidOutcomeIndex", market |-> m]
       ELSE [err |-> "Ok",
             market |-> [m EXCEPT !.winning_outcome = Some(winning_outcome_index),
                                  !.status = "Closed",
                                  !.settled_at = Some(t)]]

settle_market(m, t, signer, winning_outcome_index) ==
    LET accounts == settle_market_accounts(m, t, signer)
    IN IF accounts # "Ok" THEN [err |-> accounts, market |-> m]
       ELSE IF ~(t >= m.settlement_time)
            THEN [err |-> "SettlementTimeNotReached", market |-> m]
       ELSE IF is_settled(m) THEN [err |-> "MarketAlreadySettled", market |-> m]
       ELSE IF ~(winning_outcome_index < Len(m.outcomes))
            THEN [err |-> "InvalidOutcomeIndex", market |-> m]
       ELSE [err |-> "Ok",
             market |-> [m EXCEPT !.winning_outcome = Some(winning_outcome_index),
                                  !.status = "Settled",
                                  !.settled_at = Some(t)]]

----------------------------------------------------------------------------
(* instructions/claim_winnings.rs *)

\* a ClaimWinnings without the constraint bet.user == user.key()
claim_winnings_accounts_any_user(m, bet, user) ==
    IF ~is_settled(m) THEN "MarketNotSettled"
    ELSE IF bet.claimed THEN "AlreadyClaimed"
    ELSE "Ok"

\* ClaimWinnings: the constraints on the accounts, in the order of the fields.
\* The model has one market, so bet.market == market.key() holds of every Bet.
claim_winnings_accounts(m, bet, user) ==
    IF ~is_settled(m) THEN "MarketNotSettled"
    ELSE IF bet.claimed THEN "AlreadyClaimed"
    ELSE IF bet.user # user THEN "ConstraintRaw"
    ELSE "Ok"

\* a payout that divides by the total shares of the outcome next to the
\* winning one
payout_of_wrong_outcome(m, bet, winning_outcome) ==
    LET other == ((winning_outcome + 1) % Len(m.outcomes)) + 1
        winning_outcome_shares == m.outcomes[other].total_shares
        product == Mul(bet.shares, m.total_liquidity)
    IN IF ~Leq(product, U128_MAX) THEN Err("ArithmeticOverflow")
       ELSE IF winning_outcome_shares = Zero THEN Err("ArithmeticOverflow")
       ELSE
         LET winnings == AsU64(Div(product, winning_outcome_shares))
             fee == AsU64(Div(MulSmall(winnings, m.fee_bps), U(<<10, 0>>)))
         IN IF Lt(winnings, fee) THEN Err("ArithmeticUnderflow")
            ELSE Ok(Sub(winnings, fee))

\* a payout from which the platform fee is not deducted
payout_of_gross(m, bet, winning_outcome) ==
    LET winning_outcome_shares == m.outcomes[winning_outcome + 1].total_shares
        product == Mul(bet.shares, m.total_liquidity)
    IN IF ~Leq(product, U128_MAX) THEN Err("ArithmeticOverflow")
       ELSE IF winning_outcome_shares = Zero THEN Err("ArithmeticOverflow")
       ELSE Ok(AsU64(Div(product, winning_outcome_shares)))

\* the payout of a bet on the winning outcome: winnings less the platform fee
payout_of(m, bet, winning_outcome) ==
    LET winning_outcome_shares == m.outcomes[winning_outcome + 1].total_shares
        product == Mul(bet.shares, m.total_liquidity)
    IN IF ~Leq(product, U128_MAX) THEN Err("ArithmeticOverflow")
       ELSE IF winning_outcome_shares = Zero THEN Err("ArithmeticOverflow")
       ELSE
         LET winnings == AsU64(Div(product, winning_outcome_shares))
             fee == AsU64(Div(MulSmall(winnings, m.fee_bps), U(<<10, 0>>)))
         IN IF Lt(winnings, fee) THEN Err("ArithmeticUnderflow")
            ELSE Ok(Sub(winnings, fee))

\* b: the position of the Bet account among the bets
claim_winnings(m, bs, esc, b, user) ==
    LET bet == bs[b]
        fail(e) == [err |-> e, bets |-> bs, escrow |-> esc, paid |-> Zero]
        accounts == claim_winnings_accounts(m, bet, user)
    IN IF accounts # "Ok" THEN fail(accounts)
       ELSE IF m.winning_outcome = None THEN fail("MarketNotSettled")
       ELSE IF bet.outcome_index # m.winning_outcome[1] THEN fail("NotWinningBet")
       ELSE
         LET payout == payout_of(m, bet, m.winning_outcome[1])
         IN IF payout.err # "Ok" THEN fail(payout.err)
            ELSE IF ~CanWithdraw(esc, payout.val) THEN fail("InsufficientFunds")
            ELSE [err |-> "Ok",
                  bets |-> [bs EXCEPT ![b].claimed = TRUE],
                  escrow |-> Withdraw(esc, payout.val),
                  paid |-> payout.val]

----------------------------------------------------------------------------
(* The instructions as steps.  Each takes its accounts and arguments from  *)
(* the sets above; a rejected one leaves every account as it was.          *)

Exists == market.status # "Uninitialized"

CreateMarket ==
    /\ ~Exists
    /\ \E creator \in Creators, oracle \in Oracles, case_len \in NameLens,
          n \in OutcomeCounts, name_len \in NameLens,
          settlement_time \in SettlementTimes, initial_liquidity \in Liquidities,
          checked \in BOOLEAN :
         \E r \in {create_market(now, creator, oracle, case_len, n, name_len,
                                settlement_time, initial_liquidity, checked)} :
            /\ market' = r.market
            /\ pool' = r.pool
            /\ bets' = r.bets
            /\ escrow' = r.escrow
            /\ last' = Rejected("create_market", r.err)
    /\ UNCHANGED now

PlaceBet ==
    /\ Exists
    /\ \E user \in Bettors, outcome_index \in OutcomeIndexes, amount \in Amounts,
          min_shares \in MinShares, funded \in BOOLEAN :
         \E r \in {place_bet(market, pool, bets, escrow, now, user, outcome_index,
                            amount, min_shares, funded)} :
            /\ r.err = "Ok" => Len(bets) < MaxBets
            /\ market' = r.market
            /\ pool' = r.pool
            /\ bets' = r.bets
            /\ escrow' = r.escrow
            /\ last' = IF r.err = "Ok"
                       THEN Call("place_bet", "Ok", user, outcome_index, amount,
                                 min_shares, Len(r.bets))
                       ELSE Rejected("place_bet", r.err)
    /\ UNCHANGED now

SettleMarket ==
    /\ Exists
    /\ \E signer \in Signers, winning_outcome_index \in OutcomeIndexes :
         \E r \in {settle_market(market, now, signer, winning_outcome_index)} :
            /\ market' = r.market
            /\ last' = IF r.err = "Ok"
                       THEN Call("settle_market", "Ok", signer,
                                 winning_outcome_index, Zero, Zero, 0)
                       ELSE Rejected("settle_market", r.err)
    /\ UNCHANGED <<now, pool, bets, escrow>>

ClaimWinnings ==
    /\ Exists
    /\ \E b \in 1 .. Len(bets), user \in Users :
         \E r \in {claim_winnings(market, bets, escrow, b, user)} :
            /\ bets' = r.bets
            /\ escrow' = r.escrow
            /\ last' = IF r.err = "Ok"
                       THEN Call("claim_winnings", "Ok", user,
                                 bets[b].outcome_index, r.paid, Zero, b)
                       ELSE Rejected("claim_winnings", r.err)
    /\ UNCHANGED <<now, market, pool>>

\* the clock is monotonic
Tick ==
    /\ now < MaxTime
    /\ now' = now + 1
    /\ UNCHANGED <<market, pool, bets, escrow, last>>

Next == CreateMarket \/ PlaceBet \/ SettleMarket \/ ClaimWinnings \/ Tick

Spec == Init /\ [][Next]_vars

----------------------------------------------------------------------------
(* Properties *)

ValidIndexes == {i \in OutcomeIndexes : i < Len(market.outcomes)}

PastDeadline == Exists /\ now >= market.settlement_time

\* C1: on a market that settle_market has settled, a further settle_market by
\* the registered oracle, at a time >= settlement_time and with a valid
\* outcome index, fails with MarketAlreadySettled and leaves the market as it is.
C1_SecondSettleAlreadySettled ==
    is_settled(market) /\ PastDeadline =>
        \A i \in ValidIndexes :
            \E r \in {settle_market(market, now, market.oracle, i)} :
                /\ r.err = "MarketAlreadySettled"
                /\ r.market = market

\* what the code does there: the call is rejected by the constraint on the
\* market account, with the error of that constraint, and changes nothing
C1_SecondSettleRejected ==
    is_settled(market) =>
        \A signer \in Signers, i \in OutcomeIndexes :
            \E r \in {settle_market(market, now, signer, i)} :
                /\ r.err = "SettlementTimeNotReached"
                /\ r.market = market

Winning(b) == is_settled(market) /\ market.winning_outcome = Some(bets[b].outcome_index)

\* C2: claimed goes from false to true at most once and never back; the first
\* claim_winnings on a winning bet of a settled market by the owner of the bet
\* succeeds, and every later claim_winnings on that Bet fails with
\* AlreadyClaimed and takes nothing out of the escrow.
C2_ClaimOnceThenAlreadyClaimed ==
    \A b \in 1 .. Len(bets) :
        /\ Winning(b) /\ ~bets[b].claimed =>
               claim_winnings(market, bets, escrow, b, bets[b].user).err = "Ok"
        /\ bets[b].claimed =>
               \A user \in Users :
                   \E r \in {claim_winnings(market, bets, escrow, b, user)} :
                       /\ r.err = "AlreadyClaimed"
                       /\ r.escrow = escrow /\ r.bets = bets /\ r.paid = Zero

\* the part of C2 the code keeps: claimed never goes back to false, a claimed
\* Bet is only ever rejected with AlreadyClaimed, and a rejected claim moves
\* nothing
C2_ClaimedIsFinal ==
    /\ [][\A b \in 1 .. Len(bets) : bets[b].claimed => bets'[b].claimed]_vars
    /\ [][last'.op = "claim_winnings" /\ last'.err # "Ok" =>
              escrow' = escrow /\ bets' = bets]_vars
    /\ [](\A b \in 1 .. Len(bets) : bets[b].claimed =>
              \A user \in Users :
                  claim_winnings(market, bets, escrow, b, user).err = "AlreadyClaimed")

\* C3: every claimed Bet is a bet on the winning outcome of a settled market;
\* claim_winnings fails with MarketNotSettled on a market that is not settled,
\* with NotWinningBet on a bet on another outcome than the winning one, and
\* fails for a signer who is not the owner of the bet; a failed claim moves
\* nothing and leaves claimed as it is.
C3_OnlyWinnersClaim ==
    /\ \A b \in 1 .. Len(bets) : bets[b].claimed => Winning(b)
    /\ \A b \in 1 .. Len(bets), user \in Users :
           \E r \in {claim_winnings(market, bets, escrow, b, user)} :
               /\ ~is_settled(market) => r.err = "MarketNotSettled"
               /\ is_settled(market) /\ ~Winning(b) /\ user = bets[b].user =>
                      r.err = "NotWinningBet"
               /\ ~Winning(b) => r.err # "Ok" /\ ~bets[b].claimed
               /\ user # bets[b].user => r.err # "Ok"
               /\ r.err # "Ok" =>
                      r.bets = bets /\ r.escrow = escrow /\ r.paid = Zero

C3_Witness ==
    /\ last.op = "claim_winnings" /\ last.err = "NotWinningBet"
    /\ \E b \in 1 .. Len(bets) : bets[b].claimed

\* C4: winning_outcome and settled_at are None exactly while the market is not
\* Settled; the winning outcome of a settled market is a valid outcome index;
\* no instruction changes winning_outcome or settled_at of a settled market.
C4_WinningOutcomeFixed ==
    /\ [](/\ (market.winning_outcome = None) <=> ~is_settled(market)
          /\ (market.settled_at = None) <=> ~is_settled(market)
          /\ is_settled(market) =>
                 /\ market.winning_outcome[1] \in 0 .. (Len(market.outcomes) - 1)
                 /\ market.settled_at[1] >= market.settlement_time)
    /\ [][is_settled(market) =>
              /\ market'.winning_outcome = market.winning_outcome
              /\ market'.settled_at = market.settled_at]_vars

\* a settled market on which a later instruction was accepted and a later
\* settle_market was tried
C4_Witness ==
    /\ is_settled(market)
    /\ last.op = "settle_market" /\ last.err # "Ok"
    /\ \E b \in 1 .. Len(bets) : bets[b].claimed

\* C5: a market is created Active; the only other change of status is from
\* Active to Settled, by settle_market; Closed, Disputed and Cancelled are
\* never reached.
C5_LifecycleMonotone ==
    /\ [](market.status \in {"Uninitialized", "Active", "Settled"})
    /\ [][market'.status # market.status =>
              \/ /\ market.status = "Uninitialized" /\ market'.status = "Active"
                 /\ last'.op = "create_market" /\ last'.err = "Ok"
              \/ /\ market.status = "Active" /\ market'.status = "Settled"
                 /\ last'.op = "settle_market" /\ last'.err = "Ok"]_vars

C5_Witness ==
    /\ is_settled(market)
    /\ last.op = "place_bet" /\ last.err = "MarketNotActive"

\* C6: settle_market on an Active market succeeds only if the signer is
\* market.oracle, the time is >= settlement_time and the index is below the
\* number of outcomes.  Before the deadline it fails with
\* SettlementTimeNotReached, from then on for another signer with
\* OracleNotAuthorized, and for the oracle with an index out of range with
\* InvalidOutcomeIndex; a failed call leaves the market Active and without a
\* winning outcome.
C6_SettleGuards ==
    is_active(market) =>
        \A signer \in Signers, i \in OutcomeIndexes :
            \E r \in {settle_market(market, now, signer, i)} :
                /\ r.err = "Ok" <=> /\ signer = market.oracle
                                    /\ now >= market.settlement_time
                                    /\ i < Len(market.outcomes)
                /\ now < market.settlement_time =>
                       r.err = "SettlementTimeNotReached"
                /\ now >= market.settlement_time /\ signer # market.oracle =>
                       r.err = "OracleNotAuthorized"
                /\ /\ now >= market.settlement_time /\ signer = market.oracle
                   /\ i >= Len(market.outcomes)
                   => r.err = "InvalidOutcomeIndex"
                /\ r.err # "Ok" =>
                       /\ r.market = market
                       /\ r.market.status = "Active"
                       /\ r.market.winning_outcome = None

C6_Witness ==
    /\ is_active(market) /\ now >= market.settlement_time
    /\ last.op = "settle_market" /\ last.err = "InvalidOutcomeIndex"

PlaceBetCalls ==
    [user : Bettors, outcome_index : OutcomeIndexes, amount : Amounts,
     min_shares : MinShares, funded : BOOLEAN]

PlaceBetOf(c) ==
    place_bet(market, pool, bets, escrow, now, c.user, c.outcome_index, c.amount,
              c.min_shares, c.funded)

Untouched(r) ==
    r.market = market /\ r.pool = pool /\ r.bets = bets /\ r.escrow = escrow

\* the checks of place_bet that come before the one on the deadline pass
WellFormedBet(c) ==
    /\ is_active(market)
    /\ c.outcome_index < Len(market.outcomes)
    /\ Leq(MIN_BET_AMOUNT, c.amount) /\ Leq(c.amount, MAX_BET_AMOUNT)

\* C7: a place_bet at a time >= settlement_time fails and changes nothing, with
\* SettlementTimeNotReached when nothing else is wrong with it; every bet was
\* placed before the deadline and a settlement happens at or after it, so
\* that no place_bet succeeds once settle_market has succeeded.
C7_NoBetAfterDeadline ==
    /\ [](PastDeadline =>
              \A c \in PlaceBetCalls :
                  \E r \in {PlaceBetOf(c)} :
                      /\ r.err # "Ok" /\ Untouched(r)
                      /\ WellFormedBet(c) => r.err = "SettlementTimeNotReached")
    /\ [](\A b \in 1 .. Len(bets) : bets[b].timestamp < market.settlement_time)
    /\ [](is_settled(market) => market.settled_at[1] >= market.settlement_time)
    /\ [][(PastDeadline \/ is_settled(market)) =>
              /\ Len(bets') = Len(bets)
              /\ market'.total_bets = market.total_bets
              /\ pool' = pool]_vars

C7_Witness ==
    /\ PastDeadline
    /\ last.op = "place_bet" /\ last.err = "SettlementTimeNotReached"
    /\ Len(bets) > 0

\* C8: place_bet on a market that is not Active fails with MarketNotActive; from
\* the moment a market is Settled, its total_liquidity, its total_bets, the
\* total_shares, bet_count and price of its outcomes and the reserves of its
\* pool never change.
C8_SettledMarketFrozen ==
    /\ [](Exists /\ ~is_active(market) =>
              \A c \in PlaceBetCalls :
                  \E r \in {PlaceBetOf(c)} :
                      r.err = "MarketNotActive" /\ Untouched(r))
    /\ [][is_settled(market) =>
              /\ market'.total_liquidity = market.total_liquidity
              /\ market'.total_bets = market.total_bets
              /\ market'.outcomes = market.outcomes
              /\ pool' = pool]_vars

C8_Witness ==
    /\ is_settled(market) /\ Len(bets) > 0
    /\ last.op = "place_bet" /\ last.err = "MarketNotActive"

\* C9: a place_bet of an amount below MIN_BET_AMOUNT fails with
\* BetAmountTooSmall, of one above MAX_BET_AMOUNT with BetAmountTooLarge, on an
\* index that is no outcome with InvalidOutcomeIndex; every failed place_bet,
\* a failed transfer or arithmetic step included, leaves the reserves, the
\* totals of the market and of its outcomes, the escrow and the Bet accounts
\* as they were.
C9_PlaceBetAllOrNothing ==
    Exists =>
        \A c \in PlaceBetCalls :
            \E r \in {PlaceBetOf(c)} :
                /\ is_active(market) /\ c.outcome_index >= Len(market.outcomes) =>
                       r.err = "InvalidOutcomeIndex"
                /\ /\ is_active(market) /\ c.outcome_index < Len(market.outcomes)
                   /\ Lt(c.amount, MIN_BET_AMOUNT)
                   => r.err = "BetAmountTooSmall"
                /\ /\ is_active(market) /\ c.outcome_index < Len(market.outcomes)
                   /\ Lt(MAX_BET_AMOUNT, c.amount)
                   => r.err = "BetAmountTooLarge"
                /\ ~c.funded => r.err # "Ok"
                /\ r.err # "Ok" => Untouched(r)
                /\ r.err = "Ok" =>
                       /\ Len(r.bets) = Len(bets) + 1
                       /\ r.escrow = Add(escrow, c.amount)
                       /\ r.market.total_liquidity =
                              Add(market.total_liquidity, c.amount)

C9_Witness ==
    /\ Len(bets) > 0
    /\ last.op = "place_bet" /\ last.err = "BetAmountTooSmall"

\* the shares place_bet computes for a call
SharesOf(c) ==
    calculate_shares_out(c.amount, pool.reserves[c.outcome_index + 1],
                         pool.k_constant)

\* C10: place_bet fails with SlippageExceeded, changing nothing, whenever the
\* shares calculate_shares_out computes from the current reserve and
\* k_constant are less than min_shares; every Bet created has at least the
\* min_shares of the call that created it.
C10_SlippageProtection ==
    /\ \A c \in PlaceBetCalls :
           WellFormedBet(c) /\ now < market.settlement_time =>
               \E r \in {PlaceBetOf(c)}, sh \in {SharesOf(c)} :
                   sh.err = "Ok" /\ Lt(sh.val, c.min_shares) =>
                       r.err = "SlippageExceeded" /\ Untouched(r)
    /\ last.op = "place_bet" /\ last.err = "Ok" =>
           Leq(last.min_shares, bets[last.bet].shares)

C10_Witness ==
    last.op = "place_bet" /\ last.err = "SlippageExceeded"

----------------------------------------------------------------------------
(* The pool and the payouts *)

\* a step of an accepted place_bet: it creates the Bet account
BetPlaced == Len(bets') = Len(bets) + 1

\* the Bet account a step has created
NewBet == bets'[Len(bets')]

\* C11: an accepted place_bet(i, amount) adds exactly amount to reserves[i],
\* leaves every other reserve and the number of reserves as they were, and
\* records shares that do not exceed reserves[i] as it was before the bet.
C11_ReservesGrowByAmount ==
    [][BetPlaced =>
           /\ Len(pool'.reserves) = Len(pool.reserves)
           /\ pool'.reserves[NewBet.outcome_index + 1] =
                  Add(pool.reserves[NewBet.outcome_index + 1], NewBet.amount)
           /\ \A j \in 1 .. Len(pool.reserves) :
                  j # NewBet.outcome_index + 1 =>
                      pool'.reserves[j] = pool.reserves[j]
           /\ Leq(NewBet.shares, pool.reserves[NewBet.outcome_index + 1])]_vars

\* two accepted bets, the second on the other outcome
C11_Witness ==
    /\ last.op = "place_bet" /\ last.err = "Ok"
    /\ Len(bets) = 2 /\ bets[1].outcome_index # bets[2].outcome_index

\* the bets on the winning outcome, and those of them that were paid
WinningBets == {b \in 1 .. Len(bets) : Winning(b)}

ClaimedBets == {b \in 1 .. Len(bets) : bets[b].claimed}

\* what claim_winnings computes as the payout of a bet of a settled market
PayoutOf(b) == payout_of(market, bets[b], market.winning_outcome[1])

RECURSIVE TotalPayout(_)
TotalPayout(S) ==
    IF S = {} THEN Zero
    ELSE LET b == CHOOSE x \in S : TRUE
         IN Add(PayoutOf(b).val, TotalPayout(S \ {b}))

RECURSIVE TotalAmount(_)
TotalAmount(bs) ==
    IF bs = <<>> THEN Zero ELSE Add(Head(bs).amount, TotalAmount(Tail(bs)))

\* what has left the escrow: the transfers in are the amounts of the bets
Paid == Sub(TotalAmount(bets), escrow)

\* C12: on a settled market with total_liquidity L the payouts of all the
\* winning bets together do not exceed L; what the accepted claims have
\* taken out of the escrow is the sum of the payouts of the claimed bets,
\* and so does not exceed L either.
C12_PayoutConservation ==
    is_settled(market) =>
        /\ \A b \in WinningBets : PayoutOf(b).err = "Ok"
        /\ Leq(TotalPayout(WinningBets), market.total_liquidity)
        /\ ClaimedBets \subseteq WinningBets
        /\ Leq(escrow, TotalAmount(bets))
        /\ Paid = TotalPayout(ClaimedBets)
        /\ Leq(Paid, market.total_liquidity)

\* two winning bets, both paid
C12_Witness ==
    /\ is_settled(market)
    /\ Cardinality(WinningBets) = 2 /\ ClaimedBets = WinningBets

\* a step of an accepted claim_winnings on the Bet account b
ClaimPaid(b) == ~bets[b].claimed /\ bets'[b].claimed

\* g = floor(shares * total_liquidity / total_shares of the winning outcome)
GrossOf(b) ==
    Div(Mul(bets[b].shares, market.total_liquidity),
        market.outcomes[market.winning_outcome[1] + 1].total_shares)

\* floor(g * fee_bps / 10000)
FeeOf(b) == Div(MulSmall(GrossOf(b), market.fee_bps), U(<<10, 0>>))

\* C13: an accepted claim_winnings takes g - floor(g * fee_bps / 10000) out
\* of the escrow, with g = floor(shares * total_liquidity / total_shares of
\* the winning outcome), sets claimed of that Bet and changes nothing else;
\* no step on a settled market changes total_liquidity, the total_shares, the
\* winning outcome, the fee or the shares of a Bet, so the payout of a bet
\* does not depend on the claims made before it: what a claim has paid is
\* the payout as any later state computes it.
C13_PayoutFormula ==
    /\ [][\A b \in 1 .. Len(bets) :
              ClaimPaid(b) =>
                  /\ Leq(Sub(GrossOf(b), FeeOf(b)), escrow)
                  /\ escrow' = Sub(escrow, Sub(GrossOf(b), FeeOf(b)))
                  /\ last'.amount = Sub(GrossOf(b), FeeOf(b))
                  /\ bets' = [bets EXCEPT ![b].claimed = TRUE]
                  /\ market' = market /\ pool' = pool]_vars
    /\ [][is_settled(market) =>
              /\ market'.total_liquidity = market.total_liquidity
              /\ market'.outcomes = market.outcomes
              /\ market'.winning_outcome = market.winning_outcome
              /\ market'.fee_bps = market.fee_bps
              /\ Len(bets') = Len(bets)
              /\ \A b \in 1 .. Len(bets) : bets'[b].shares = bets[b].shares]_vars
    /\ [](is_settled(market) /\ last.op = "claim_winnings" /\ last.err = "Ok" =>
              last.amount = PayoutOf(last.bet).val)

\* the second of two winning bets has just been paid
C13_Witness ==
    /\ last.op = "claim_winnings" /\ last.err = "Ok"
    /\ Cardinality(ClaimedBets) = 2
    /\ bets[1].shares # bets[2].shares

\* get_price of every outcome of the pool
Prices == [i \in 1 .. Len(pool.reserves) |-> get_price(pool.reserves, i - 1)]

PriceSum == Sum([i \in 1 .. Len(pool.reserves) |-> Prices[i].val])

\* C14: in every pool with n outcomes get_price(i) is defined and lies in
\* [0, 1,000,000] for every outcome i, and the sum of the prices is at most
\* 1,000,000 and more than 1,000,000 - n.
C14_PricesSumToOne ==
    Exists =>
        /\ \A i \in 1 .. Len(pool.reserves) :
               Prices[i].err = "Ok" /\ Leq(Prices[i].val, U(<<1, 0, 0>>))
        /\ Leq(PriceSum, U(<<1, 0, 0>>))
        /\ Lt(Sub(U(<<1, 0, 0>>), U(<<Len(pool.reserves)>>)), PriceSum)

\* a pool whose reserves differ and whose prices sum to less than 1,000,000
C14_Witness ==
    /\ Exists /\ Len(bets) > 0
    /\ pool.reserves[1] # pool.reserves[2]
    /\ Lt(PriceSum, U(<<1, 0, 0>>))

\* the reserves create_market has seeded: total_lp_tokens keeps the initial
\* liquidity
SeededReserves ==
    [i \in 1 .. Len(pool.reserves) |->
        Div(pool.total_lp_tokens, U(<<Len(pool.reserves)>>))]

\* the Bet account of the latest accepted place_bet and the reserve of its
\* outcome before it
LastBet == bets[last.bet]

ReserveBefore == Sub(pool.reserves[LastBet.outcome_index + 1], LastBet.amount)

\* C15: k_constant is the product of the reserves seeded at creation, after
\* any number of bets, and the shares of a bet are the reserve before it less
\* floor(that product / (the reserve before it + amount)).
C15_KConstantIsSeededProduct ==
    Exists =>
        /\ pool.k_constant = Product(SeededReserves)
        /\ last.op = "place_bet" /\ last.err = "Ok" =>
               LastBet.shares =
                   Sub(ReserveBefore,
                       Div(Product(SeededReserves),
                           pool.reserves[LastBet.outcome_index + 1]))

\* the part of C15 the code keeps: no instruction changes k_constant, which
\* stays what create_market has stored, the product of the seeded reserves
\* as a u128 (reduced modulo 2^128 where it does not fit); the shares of
\* every bet are computed from that value and from the current reserve
C15_KConstantSnapshot ==
    /\ [][Exists => pool'.k_constant = pool.k_constant]_vars
    /\ [](Exists =>
              /\ pool.k_constant = k_product(SeededReserves, FALSE).val
              /\ last.op = "place_bet" /\ last.err = "Ok" =>
                     LastBet.shares =
                         Sub(ReserveBefore,
                             Div(pool.k_constant,
                                 pool.reserves[LastBet.outcome_index + 1])))

OpenBet(c) == WellFormedBet(c) /\ bet_window_open(market, now)

\* C17: on every market create_market has accepted, after any accepted bets,
\* a place_bet with a valid index, an amount within the limits and
\* min_shares = 0 before the deadline does not fail with ArithmeticUnderflow.
C17_NoUnderflow ==
    \A c \in PlaceBetCalls :
        OpenBet(c) /\ c.min_shares = Zero =>
            PlaceBetOf(c).err # "ArithmeticUnderflow"

\* what the code does: on a market of two outcomes no such bet underflows
\* (C24 aside), on a market of three to five outcomes seeded from
\* MIN_INITIAL_LIQUIDITY every such bet does
C17_UnderflowBeyondTwoOutcomes ==
    \A c \in PlaceBetCalls :
        OpenBet(c) =>
            (PlaceBetOf(c).err = "ArithmeticUnderflow" <=> Len(market.outcomes) > 2)

\* C18: the entry_price of a Bet is get_price of its outcome on the reserves
\* before the amount is added, the price place_bet stores in the outcome is
\* get_price on the reserves after it is added, and the entry_price is not
\* above the stored price.
C18_PriceSnapshotOrdering ==
    [][BetPlaced =>
           /\ NewBet.entry_price =
                  get_price(pool.reserves, NewBet.outcome_index).val
           /\ market'.outcomes[NewBet.outcome_index + 1].price =
                  get_price([pool.reserves EXCEPT
                                 ![NewBet.outcome_index + 1] = Add(@, NewBet.amount)],
                            NewBet.outcome_index).val
           /\ market'.outcomes[NewBet.outcome_index + 1].price =
                  get_price(pool'.reserves, NewBet.outcome_index).val
           /\ Leq(NewBet.entry_price,
                  market'.outcomes[NewBet.outcome_index + 1].price)]_vars

\* a second bet, on the outcome next to that of the first, whose entry price
\* is below the price stored after it
C18_Witness ==
    /\ last.op = "place_bet" /\ last.err = "Ok" /\ last.bet = 2
    /\ bets[1].outcome_index # bets[2].outcome_index
    /\ Lt(LastBet.entry_price, market.outcomes[LastBet.outcome_index + 1].price)

----------------------------------------------------------------------------
(* The first trade on a fresh binary market, over a range of liquidities   *)
(* and amounts.                                                            *)

\* initial liquidities 2r: the minimum, that of the scenario of the spec, an
\* odd one, those around 2r = 499,999 * MIN_BET_AMOUNT and around
\* r = MIN_BET_AMOUNT * (MIN_BET_AMOUNT - 1), larger ones up to 2^64 - 2
FirstTradeLiquidities ==
    {MIN_INITIAL_LIQUIDITY,
     U(<<2, 0, 0, 0>>),
     U(<<2, 0, 0, 1>>),
     U(<<4, 999, 990, 0, 0>>),
     U(<<4, 999, 990, 0, 2>>),
     U(<<199, 999, 980, 0, 0>>),
     U(<<199, 999, 980, 0, 2>>),
     U(<<2, 0, 0, 0, 0, 0>>),
     U(<<1, 0, 0, 0, 0, 0, 0>>),
     U(<<18, 446, 744, 73, 709, 551, 614>>)}

FirstTradeAmounts ==
    {MIN_BET_AMOUNT,
     Add(MIN_BET_AMOUNT, One),
     U(<<50, 0, 0>>),
     U(<<1, 0, 0, 0>>),
     U(<<10, 0, 0, 0>>),
     MAX_BET_AMOUNT}

CreateBinary ==
    /\ ~Exists
    /\ \E initial_liquidity \in FirstTradeLiquidities :
         \E r \in {create_market(now, "creator", "oracle", 64, 2, 64, 1,
                                initial_liquidity, TRUE)} :
            /\ market' = r.market
            /\ pool' = r.pool
            /\ bets' = r.bets
            /\ escrow' = r.escrow
            /\ last' = Rejected("create_market", r.err)
    /\ UNCHANGED now

FirstBet ==
    /\ Exists /\ market.total_bets = 0
    /\ \E outcome_index \in {0, 1}, amount \in FirstTradeAmounts :
         \E r \in {place_bet(market, pool, bets, escrow, now, "alice",
                            outcome_index, amount, Zero, TRUE)} :
            /\ market' = r.market
            /\ pool' = r.pool
            /\ bets' = r.bets
            /\ escrow' = r.escrow
            /\ last' = IF r.err = "Ok"
                       THEN Call("place_bet", "Ok", "alice", outcome_index, amount,
                                 Zero, Len(r.bets))
                       ELSE Rejected("place_bet", r.err)
    /\ UNCHANGED now

NextFirstTrade == CreateBinary \/ FirstBet

SpecFirstTrade == Init /\ [][NextFirstTrade]_vars

\* a binary market no bet has been placed on
FreshBinary == Exists /\ Len(market.outcomes) = 2 /\ market.total_bets = 0

\* the state right after the first bet of a binary market
FirstTrade ==
    /\ Exists /\ Len(market.outcomes) = 2 /\ market.total_bets = 1
    /\ last.op = "place_bet" /\ last.err = "Ok"

\* r, where the initial liquidity is 2r or 2r + 1
SeededReserve == Div(pool.total_lp_tokens, U(<<2>>))

HalfPrice == U(<<500, 0>>)

\* what create_market seeds a binary market with, and the shares of its
\* first bet
FirstTradeSeeds ==
    /\ FreshBinary =>
           /\ pool.reserves = <<SeededReserve, SeededReserve>>
           /\ \A i \in 1 .. 2 :
                  /\ market.outcomes[i].total_shares = SeededReserve
                  /\ market.outcomes[i].price = HalfPrice
                  /\ get_price(pool.reserves, i - 1) = Ok(HalfPrice)
           /\ pool.k_constant = Mul(SeededReserve, SeededReserve)
    /\ FirstTrade =>
           LastBet.shares =
               Sub(SeededReserve,
                   Div(Mul(SeededReserve, SeededReserve),
                       Add(SeededReserve, LastBet.amount)))

\* r = 1,000,000,000 and a = 10,000,000: the implied counter reserve is
\* 990,099,009 and the shares are 9,900,991
PinnedInstance ==
    /\ FirstTrade
    /\ SeededReserve = U(<<1, 0, 0, 0>>) /\ LastBet.amount = U(<<10, 0, 0>>)
    => /\ Div(pool.k_constant, pool.reserves[LastBet.outcome_index + 1]) =
              U(<<990, 99, 9>>)
       /\ LastBet.shares = U(<<9, 900, 991>>)

\* C19: a binary market created with initial_liquidity 2r has reserves
\* [r, r], total_shares r and price 500,000 per outcome and k_constant r * r;
\* its first bet, of amount a on outcome 0, gets r - floor(r * r / (r + a))
\* shares, which is less than a, and leaves get_price(0) above 500,000; with
\* r = 1,000,000,000 and a = 10,000,000 the counter reserve is 990,099,009
\* and the shares are 9,900,991.
C19_FirstTradeStrict ==
    /\ FirstTradeSeeds
    /\ PinnedInstance
    /\ FirstTrade /\ LastBet.outcome_index = 0 =>
           /\ Lt(LastBet.shares, LastBet.amount)
           /\ Lt(HalfPrice, get_price(pool.reserves, 0).val)

\* C19 as the code has it: the shares are at most a, and less than a exactly
\* when r <= a * (a - 1); the price of the outcome after the bet is at
\* least 500,000, and above it exactly when 2r <= 499,999 * a.
C19_FirstTrade ==
    /\ FirstTradeSeeds
    /\ PinnedInstance
    /\ FirstTrade =>
           /\ Leq(LastBet.shares, LastBet.amount)
           /\ Lt(LastBet.shares, LastBet.amount) <=>
                  Leq(SeededReserve, Mul(LastBet.amount, Sub(LastBet.amount, One)))
           /\ Leq(HalfPrice, get_price(pool.reserves, LastBet.outcome_index).val)
           /\ Lt(HalfPrice, get_price(pool.reserves, LastBet.outcome_index).val) <=>
                  Leq(MulSmall(SeededReserve, 2),
                      Mul(LastBet.amount, U(<<499, 999>>)))

\* the first bet of the scenario of the spec
C19_Witness ==
    /\ FirstTrade /\ LastBet.outcome_index = 0
    /\ SeededReserve = U(<<1, 0, 0, 0>>) /\ LastBet.amount = U(<<10, 0, 0>>)
    /\ LastBet.shares = U(<<9, 900, 991>>)

\* C20: on a market of two outcomes every Bet, the first and the later ones,
\* has shares <= amount.
C20_SharesAtMostAmount ==
    Exists /\ Len(market.outcomes) = 2 =>
        \A b \in 1 .. Len(bets) : Leq(bets[b].shares, bets[b].amount)

\* the part of C20 the code keeps: a bet on an outcome no earlier bet was
\* placed on, the first bet of a market among them, has shares <= amount
C20_FirstBetOnAnOutcome ==
    Exists /\ Len(market.outcomes) = 2 =>
        \A b \in 1 .. Len(bets) :
            (\A e \in 1 .. b - 1 : bets[e].outcome_index # bets[b].outcome_index)
                => Leq(bets[b].shares, bets[b].amount)

----------------------------------------------------------------------------
(* C21: the solvency of the escrow *)

\* the winning bets of a settled market that were not paid yet
UnclaimedWinningBets == WinningBets \ ClaimedBets

\* C21: on a settled market the escrow holds at least the sum of the payouts
\* of the unclaimed winning bets, so that no claim_winnings of the owner of
\* an unclaimed winning bet fails for want of escrowed funds.
C21_EscrowSolvency ==
    is_settled(market) =>
        /\ Leq(TotalPayout(UnclaimedWinningBets), escrow)
        /\ \A b \in UnclaimedWinningBets :
               claim_winnings(market, bets, escrow, b, bets[b].user).err = "Ok"

\* the premises of C21, which the code keeps: create_market puts nothing into
\* the escrow, until settlement the escrow holds the amounts of the bets, and
\* afterwards it has lost the payouts of the claimed bets and nothing else
C21_EscrowFundedByBetsOnly ==
    /\ Exists /\ Len(bets) = 0 => escrow = Zero
    /\ is_active(market) => escrow = TotalAmount(bets)
    /\ is_settled(market) =>
           /\ Leq(escrow, TotalAmount(bets))
           /\ Add(escrow, TotalPayout(ClaimedBets)) = TotalAmount(bets)

----------------------------------------------------------------------------
(* C22: the accounts of a market add up *)

\* the initial_liquidity of create_market, which the pool keeps as
\* total_lp_tokens, and the share of it that seeds each outcome
InitialLiquidity == pool.total_lp_tokens

LiquidityPerOutcome == Div(InitialLiquidity, U(<<Len(market.outcomes)>>))

\* the Bet accounts on outcome i (an index from 0)
BetsOn(i) == {b \in 1 .. Len(bets) : bets[b].outcome_index = i}

SharesOn(i) ==
    Sum([b \in 1 .. Len(bets) |->
             IF bets[b].outcome_index = i THEN bets[b].shares ELSE Zero])

RECURSIVE BetCountSum(_)
BetCountSum(outcomes) ==
    IF outcomes = <<>> THEN 0 ELSE Head(outcomes).bet_count + BetCountSum(Tail(outcomes))

\* the state part of C22
Ledger ==
    Exists =>
        /\ Len(pool.reserves) = Len(market.outcomes)
        /\ Len(market.outcomes) \in 2 .. MAX_OUTCOMES
        /\ market.total_bets = Len(bets)
        /\ market.total_bets = BetCountSum(market.outcomes)
        /\ market.total_liquidity = Add(InitialLiquidity, TotalAmount(bets))
        /\ Sum(pool.reserves) =
               Add(MulSmall(LiquidityPerOutcome, Len(market.outcomes)),
                   TotalAmount(bets))
        /\ \A i \in 1 .. Len(market.outcomes) :
               /\ market.outcomes[i].bet_count = Cardinality(BetsOn(i - 1))
               /\ market.outcomes[i].total_shares =
                      Add(LiquidityPerOutcome, SharesOn(i - 1))
               /\ market.outcomes[i].total_shares # Zero
        /\ is_settled(market) =>
               market.outcomes[market.winning_outcome[1] + 1].total_shares # Zero

\* C22: in every state of a market of n outcomes created with
\* initial_liquidity I the reserves and the outcomes are n each; total_bets is
\* the number of Bet accounts and the sum of the bet_count of the outcomes,
\* and every accepted bet, and nothing else, raises it by one, so that the
\* Bet accounts are numbered 0, 1, 2, ... by the total_bets they were created
\* at; total_liquidity is I plus the amounts of the bets; the reserves sum to
\* n * floor(I / n) plus the amounts of the bets; total_shares of outcome i is
\* floor(I / n) plus the shares of the bets on i, and so never zero, for the
\* winning outcome of a settled market in particular.
C22_LedgerAccounting ==
    /\ []Ledger
    /\ [][/\ BetPlaced => /\ market.total_bets = Len(bets)
                          /\ market'.total_bets = market.total_bets + 1
                          /\ SubSeq(bets', 1, Len(bets)) = bets
          /\ Exists /\ market'.total_bets # market.total_bets => BetPlaced]_vars

\* a settled market with two bets on its winning outcome
C22_Witness ==
    /\ is_settled(market)
    /\ market.total_bets = 2
    /\ Cardinality(BetsOn(market.winning_outcome[1])) = 2

----------------------------------------------------------------------------
(* C23: the stored prices and the pool *)

StoredPrice(i) == market.outcomes[i + 1].price

\* get_price(i) of the reserves of the pool as they are
PoolPrice(i) == get_price(pool.reserves, i).val

Outcomes == 0 .. (Len(market.outcomes) - 1)

StoredPriceSum == Sum([i \in 1 .. Len(market.outcomes) |-> market.outcomes[i].price])

\* 1,000,000 - n
OneLessN == Sub(U(<<1, 0, 0>>), U(<<Len(market.outcomes)>>))

----------------------------------------------------------------------------
(* C24: the product of the seeded reserves *)

\* the errors of the validation of create_market
ValidationErrors ==
    {"CaseIdTooLong", "TooManyOutcomes", "InsufficientLiquidity",
     "SettlementTimeNotReached", "OutcomeNameTooLong"}

\* the latest instruction was a create_market
Created == last.op = "create_market" /\ last.err = "Ok"

\* C24: a create_market that passes the validation either stores the exact
\* product of the seeded reserves, which fits in 128 bits, in k_constant, or
\* is rejected with ArithmeticOverflow.
C24_NoSilentOverflow ==
    /\ last.op = "create_market" =>
           last.err \in ValidationErrors \cup {"Ok", "ArithmeticOverflow"}
    /\ Created =>
           /\ Leq(Product(pool.reserves), U128_MAX)
           /\ pool.k_constant = Product(pool.reserves)

\* what the code does beyond 128 bits: a build that checks overflow aborts
\* the instruction with a panic, any other stores the product modulo 2^128;
\* a product within 128 bits is stored as it is
C24_WrapsOrPanics ==
    /\ last.op = "create_market" =>
           last.err \in ValidationErrors \cup {"Ok", "Panic"}
    /\ Created =>
           pool.k_constant =
               IF Leq(Product(pool.reserves), U128_MAX)
               THEN Product(pool.reserves)
               ELSE Mod(Product(pool.reserves), Add(U128_MAX, One))
====
